---- MODULE Spec2Model ----
(***************************************************************************)
(* A model of the BookClub single-page application (src/src/App.jsx).      *)
(*                                                                         *)
(* Text is modelled as sequences of one-character strings, so that         *)
(* toLowerCase, trim, includes, split and parseInt are computed, not       *)
(* assumed.  Instants are integers counted in ticks of 1000 ms (the unit   *)
(* of the per-row offset of the import) since the epoch, in UTC; a Date    *)
(* object is a record [valid, t] because a JavaScript Date may be the      *)
(* Invalid Date (time value NaN).  The text produced by toISOString is     *)
(* represented by the instant it denotes: that text and its parse are      *)
(* exact inverses for every valid Date.                                    *)
(***************************************************************************)
EXTENDS Integers, Sequences, FiniteSets, TLC

(***************************************************************************)
(* Text helpers (String.prototype methods used by the source).              *)
(***************************************************************************)
UpperLetters == <<"A","B","C","D","E","F","G","H","I","J","K","L","M",
                  "N","O","P","Q","R","S","T","U","V","W","X","Y","Z">>
LowerLetters == <<"a","b","c","d","e","f","g","h","i","j","k","l","m",
                  "n","o","p","q","r","s","t","u","v","w","x","y","z">>
Digits == <<"0","1","2","3","4","5","6","7","8","9">>

Whitespace == {" ", "\t", "\r", "\n"}

IndexIn(c, table) ==
  IF \E i \in 1..Len(table) : table[i] = c
    THEN CHOOSE i \in 1..Len(table) : table[i] = c
    ELSE 0

LowerChar(c) ==
  LET i == IndexIn(c, UpperLetters) IN IF i = 0 THEN c ELSE LowerLetters[i]

\* String.prototype.toLowerCase
toLowerCase(s) == [i \in 1..Len(s) |-> LowerChar(s[i])]

\* String.prototype.trim
RECURSIVE trimStart(_)
trimStart(s) ==
  IF s # <<>> /\ Head(s) \in Whitespace THEN trimStart(Tail(s)) ELSE s

RECURSIVE trimEnd(_)
trimEnd(s) ==
  IF s # <<>> /\ s[Len(s)] \in Whitespace
    THEN trimEnd(SubSeq(s, 1, Len(s) - 1))
    ELSE s

trim(s) == trimEnd(trimStart(s))

\* String.prototype.includes
includes(s, sub) ==
  \E i \in 1..(Len(s) - Len(sub) + 1) : SubSeq(s, i, i + Len(sub) - 1) = sub

\* String.prototype.substring(0, n)
substring0(s, n) == SubSeq(s, 1, IF Len(s) < n THEN Len(s) ELSE n)

\* Array.prototype.join(sep)
RECURSIVE join(_, _)
join(parts, sep) ==
  IF parts = <<>> THEN <<>>
  ELSE IF Len(parts) = 1 THEN parts[1]
  ELSE parts[1] \o sep \o join(Tail(parts), sep)

\* String.prototype.split(sep) for a one-character separator
RECURSIVE splitChar(_, _, _)
splitChar(s, sep, cur) ==
  IF s = <<>> THEN <<cur>>
  ELSE IF Head(s) = sep THEN <<cur>> \o splitChar(Tail(s), sep, <<>>)
  ELSE splitChar(Tail(s), sep, Append(cur, Head(s)))

\* String.prototype.split(/[\s-]+/): a maximal run of whitespace and hyphens
\* separates two parts; a run at either end leaves an empty part there.
IsDateSep(c) == c \in Whitespace \/ c = "-"

RECURSIVE splitDateParts(_, _, _)
splitDateParts(s, cur, prevSep) ==
  IF s = <<>> THEN <<cur>>
  ELSE IF IsDateSep(Head(s))
    THEN IF prevSep THEN splitDateParts(Tail(s), cur, TRUE)
         ELSE <<cur>> \o splitDateParts(Tail(s), <<>>, TRUE)
  ELSE splitDateParts(Tail(s), Append(cur, Head(s)), FALSE)

\* parseInt(text): the leading decimal digits of the text, NaN when there
\* are none.  [ok |-> FALSE] is NaN.
RECURSIVE digitsValue(_, _)
digitsValue(s, acc) ==
  IF s = <<>> \/ IndexIn(Head(s), Digits) = 0 THEN acc
  ELSE digitsValue(Tail(s), acc * 10 + (IndexIn(Head(s), Digits) - 1))

parseInt(s) ==
  LET t == trimStart(s) IN
  IF t = <<>> \/ IndexIn(Head(t), Digits) = 0
    THEN [ok |-> FALSE, n |-> 0]
    ELSE [ok |-> TRUE, n |-> digitsValue(t, 0)]

(***************************************************************************)
(* Dates.  TicksPerMonth is the length given to a calendar month (the     *)
(* source's months are 2 419 200 to 2 678 400 ticks long; the model only  *)
(* needs a month to be longer than the row offsets it meets).              *)
(***************************************************************************)
TicksPerMonth == 4

InvalidDate == [valid |-> FALSE, t |-> 0]
DateOf(t) == [valid |-> TRUE, t |-> t]

\* new Date(0)
EpochDate == DateOf(0)

\* new Date(year, monthIndex, 1): years 0..99 denote 1900..1999, and a time
\* value beyond 8.64e15 ms (13 September 275760) makes the Date invalid.
MakeDate(year, monthIndex) ==
  LET y == IF year >= 0 /\ year <= 99 THEN 1900 + year ELSE year IN
  IF y > 275760 \/ (y = 275760 /\ monthIndex > 8)
    THEN InvalidDate
    ELSE DateOf(((y - 1970) * 12 + monthIndex) * TicksPerMonth)

\* the `months` table of parseDate: the month index of a name, -1 if absent
MonthNames ==
  << <<"j","a","n">>, <<"f","e","b">>, <<"m","a","r">>, <<"a","p","r">>,
     <<"m","a","y">>, <<"j","u","n">>, <<"j","u","l">>, <<"a","u","g">>,
     <<"s","e","p">>, <<"o","c","t">>, <<"n","o","v">>, <<"d","e","c">> >>

months(name) == IndexIn(name, MonthNames) - 1

\* The browsers the application runs in differ in what `new Date(text)`
\* accepts beyond the ISO format: "strict" accepts the ISO format only (the
\* Safari/iOS behaviour parseDate works around), "legacy" also accepts
\* "<month word> <year>" and "1 <month word> <year>".
Engines == {"strict", "legacy"}

IsDigits(s, n) ==
  Len(s) = n /\ \A i \in 1..n : IndexIn(s[i], Digits) # 0

\* ISO format "YYYY" and "YYYY-MM"
IsoParse(s) ==
  IF IsDigits(s, 4)
    THEN DateOf((digitsValue(s, 0) - 1970) * 12 * TicksPerMonth)
  ELSE IF Len(s) = 7 /\ IsDigits(SubSeq(s, 1, 4), 4) /\ s[5] = "-"
          /\ IsDigits(SubSeq(s, 6, 7), 2)
          /\ digitsValue(SubSeq(s, 6, 7), 0) \in 1..12
    THEN DateOf(((digitsValue(SubSeq(s, 1, 4), 0) - 1970) * 12
                 + digitsValue(SubSeq(s, 6, 7), 0) - 1) * TicksPerMonth)
  ELSE InvalidDate

LegacyParse(s) ==
  LET parts == splitChar(trim(s), " ", <<>>)
      one == <<"1">>
      rest == IF Len(parts) = 3 /\ parts[1] = one THEN Tail(parts) ELSE parts
  IN IF Len(rest) = 2
        /\ months(substring0(toLowerCase(rest[1]), 3)) # -1
        /\ rest[2] # <<>>
        /\ IsDigits(rest[2], Len(rest[2]))
       THEN MakeDate(digitsValue(rest[2], 0),
                     months(substring0(toLowerCase(rest[1]), 3)))
       ELSE InvalidDate

\* new Date(dateStr)
NewDateFromText(engine, s) ==
  IF IsoParse(s).valid THEN IsoParse(s)
  ELSE IF engine = "legacy" THEN LegacyParse(s)
  ELSE InvalidDate

\* A declined prompt returns null; Null is no text (its element is not a
\* character).
Null == << "null" >>

parseDate(engine, dateStr) ==
  IF dateStr = Null \/ dateStr = <<>> THEN EpochDate
  ELSE IF NewDateFromText(engine, dateStr).valid
    THEN NewDateFromText(engine, dateStr)
  ELSE
    LET parts == splitDateParts(trim(dateStr), <<>>, FALSE)
        monthName == substring0(toLowerCase(parts[1]), 3)
        year == parseInt(parts[Len(parts)])
    IN IF Len(parts) >= 2 /\ months(monthName) # -1 /\ year.ok
         THEN MakeDate(year.n, months(monthName))
         ELSE EpochDate

\* /(jan|feb|...|dec)/i.test(text)
hasMonthToken(s) ==
  \E i \in 1..Len(MonthNames) : includes(toLowerCase(s), MonthNames[i])

(***************************************************************************)
(* Identities.                                                             *)
(***************************************************************************)
ADMIN_EMAILS ==
  { <<"s","h","a","r","o","n","@","t","u","t","o","r","s","h","i","b","a",
      ".","c","o","m">> }

NoUser == [email |-> Null]

\* isAdmin without the allow-list: any signed-in identity.
isAdminOfAnyone(currentUser) == currentUser.email # Null

\* isAdmin(currentUser)
isAdmin(currentUser) ==
  /\ currentUser # NoUser
  /\ \E email \in ADMIN_EMAILS :
       toLowerCase(email) = toLowerCase(currentUser.email)


(***************************************************************************)
(* The state of the application and of the services it talks to.           *)
(***************************************************************************)
VARIABLES
  engine,        \* the browser's Date parser, fixed for a run of the app
  now,           \* the current time, in ticks
  sheet,         \* the text served at GOOGLE_SHEET_CSV_URL
  user,          \* useState(null): the signed-in identity, NoUser if none
  showLogin,     \* useState(false)
  activeTab,     \* useState('read')
  searchQuery,   \* useState('')
  filterQuery,   \* useState('')
  searchResults, \* useState([])
  isLoading,     \* useState(false)
  myBooks,       \* useState([]): the local snapshot of the collection
  store,         \* the documents of the remote collection "books"
  nextKey,       \* the number of document ids handed out so far, plus one
  writes,        \* store writes issued and not yet settled
  calls,         \* HTTP requests issued and not yet answered, oldest first
  latest,        \* the search or list fetch started most recently
  awaiting,      \* import runs suspended at `await Promise.all(batchPromises)`
  shown,         \* what the last render displayed: getDisplayBooks()
  last           \* the last handler run: its inputs and what it did

vars == << engine, now, sheet, user, showLogin, activeTab, searchQuery,
           filterQuery, searchResults, isLoading, myBooks, store, nextKey,
           writes, calls, latest, awaiting, shown, last >>

\* Bounds of the model: the document ids handed out by add and edit, the
\* store writes and the HTTP requests in flight at once, the document ids
\* handed out by imports.
MaxDocs == 1
MaxWrites == 1
MaxCalls == 2
MaxImported == 3

ListTabs == {"read", "scheduled", "suggested"}
Tabs == ListTabs \cup {"search"}

(***************************************************************************)
(* ListView: getDisplayBooks.                                              *)
(***************************************************************************)
\* The comparison of the scheduled tab with its operands swapped.
compareAscendingSwapped(a, b) == b.sortDate - a.sortDate

\* (a, b) => new Date(a.sortDate) - new Date(b.sortDate)
compareAscending(a, b) == a.sortDate - b.sortDate

\* (a, b) => new Date(b.sortDate) - new Date(a.sortDate)
compareDescending(a, b) == b.sortDate - a.sortDate

compare(tab, a, b) ==
  IF tab = "scheduled" THEN compareAscending(a, b) ELSE compareDescending(a, b)

\* Array.prototype.sort(compare): a stable sort; compare(a, b) > 0 puts b
\* first.  Insertion into an already sorted prefix, after every element that
\* does not compare greater.
RECURSIVE insertSorted(_, _, _)
insertSorted(sorted, x, tab) ==
  IF sorted = <<>> THEN <<x>>
  ELSE IF compare(tab, Head(sorted), x) > 0 THEN <<x>> \o sorted
  ELSE <<Head(sorted)>> \o insertSorted(Tail(sorted), x, tab)

RECURSIVE sortBooks(_, _)
sortBooks(seq, tab) ==
  IF seq = <<>> THEN <<>>
  ELSE insertSorted(sortBooks(SubSeq(seq, 1, Len(seq) - 1), tab),
                    seq[Len(seq)], tab)

\* Array.isArray(b.author_name) ? b.author_name.join(' ') : (b.author_name || '')
authorText(b) == join(b.author_name, <<" ">>)

\* The filter with the filter text taken as typed.
matchesFilterAsTyped(b, tab, text) ==
  /\ b.status = tab
  /\ \/ includes(toLowerCase(b.title), text)
     \/ includes(toLowerCase(authorText(b)), text)

matchesFilter(b, tab, text) ==
  /\ b.status = tab
  /\ \/ includes(toLowerCase(b.title), toLowerCase(text))
     \/ includes(toLowerCase(authorText(b)), toLowerCase(text))

\* myBooks.filter(b => ...)
RECURSIVE filterBooks(_, _, _)
filterBooks(seq, tab, text) ==
  IF seq = <<>> THEN <<>>
  ELSE IF matchesFilter(Head(seq), tab, text)
    THEN <<Head(seq)>> \o filterBooks(Tail(seq), tab, text)
  ELSE filterBooks(Tail(seq), tab, text)

getDisplayBooks(books, results, tab, text) ==
  IF tab = "search" THEN results
  ELSE sortBooks(filterBooks(books, tab, text), tab)

\* Every state change is followed by a render, which calls getDisplayBooks.
Render ==
  shown' = getDisplayBooks(myBooks', searchResults', activeTab', filterQuery')


(***************************************************************************)
(* The inputs the model draws from.                                        *)
(***************************************************************************)
AdminUser ==
  [email |-> <<"S","h","a","r","o","n","@","T","u","t","o","r","S","h","i",
               "b","a",".","c","o","m">>]
MemberUser == [email |-> <<"a","n","n","@","x",".","o","r","g">>]
Users == {AdminUser, MemberUser}

Statuses == {"read", "scheduled", "suggested"}

TextDune == <<"D","u","n","e">>
TextEmma == <<"E","m","m","a">>
TextSep2099 == <<"S","e","p","t","e","m","b","e","r"," ","2","0","9","9">>
TextMar2020 == <<"m","a","r","-","2","0","2","0">>
TextJan300000 == <<"J","a","n"," ","3","0","0","0","0","0">>
TextAl == <<"A","l">>
TextOk == <<"o","k">>

\* What the book-metadata API holds: item.id, item.volumeInfo.title,
\* .authors (Null when absent), the ISBN_13 and ISBN_10 identifiers.
VolumeDune ==
  [id |-> "g1", title |-> TextDune, authors |-> << <<"A","l">>, <<"B","o">> >>,
   isbn13 |-> <<"9","7","8">>, isbn10 |-> <<"0","4">>]
VolumeEmma ==
  [id |-> "g2", title |-> TextEmma, authors |-> Null,
   isbn13 |-> Null, isbn10 |-> <<"0","5">>]

\* (data.items || []).map(item => ...) of executeSearch
formatVolume(item) ==
  [key |-> item.id,
   title |-> item.title,
   author_name |-> IF item.authors = Null
                     THEN << <<"U","n","k","n","o","w","n">> >>
                     ELSE item.authors,
   coverUrl |-> Null,
   isbn |-> IF item.isbn13 # Null THEN item.isbn13 ELSE item.isbn10]

formatVolumes(items) == [i \in 1..Len(items) |-> formatVolume(items[i])]

\* new Date().toLocaleDateString(): the clock of the model stays within
\* one calendar day, whose local date text this is.
LocaleDateText == <<"1","2","/","1","/","2","0","2","6">>

\* The clock starts at the first instant of December 2026.
NowStart == MakeDate(2026, 11).t

(***************************************************************************)
(* What the last handler run did: the exception that escaped it ("" if     *)
(* none) and the message it showed to the user ("" if none).               *)
(***************************************************************************)
Ran(op, threw, alert) == [op |-> op, threw |-> threw, alert |-> alert]

NoArg == [none |-> TRUE]

AppOwner(kind) == [kind |-> kind, run |-> 0]

(***************************************************************************)
(* SessionGate: handleLogin, handleLogout, onAuthStateChanged.             *)
(***************************************************************************)
\* handleLogin: signInWithEmailAndPassword resolves (the identity stream then
\* delivers the identity to setUser) or rejects (caught: an alert).
handleLogin(u, ok) ==
  /\ user = NoUser
  /\ IF ok
       THEN /\ user' = u
            /\ showLogin' = FALSE
            /\ last' = Ran("login", "", "")
       ELSE /\ UNCHANGED << user, showLogin >>
            /\ last' = Ran("login", "", "Login failed")
  /\ UNCHANGED << engine, now, sheet, activeTab, searchQuery, filterQuery,
                  searchResults, isLoading, myBooks, store, nextKey, writes,
                  calls, latest, awaiting >>
  /\ Render

\* handleLogout: `await signOut(auth)` with no try around it.
handleLogout(ok) ==
  /\ user # NoUser
  /\ IF ok
       THEN /\ user' = NoUser
            /\ last' = Ran("logout", "", "")
       ELSE /\ UNCHANGED user
            /\ last' = Ran("logout", "signOut", "")
  /\ UNCHANGED << engine, now, sheet, showLogin, activeTab, searchQuery,
                  filterQuery, searchResults, isLoading, myBooks, store,
                  nextKey, writes, calls, latest, awaiting >>
  /\ Render

(***************************************************************************)
(* Presentation state: the tab buttons and the filter input.               *)
(***************************************************************************)
setActiveTab(tab) ==
  /\ tab # activeTab
  /\ tab = "search" => (searchResults # <<>> \/ activeTab = "search")
  /\ activeTab' = tab
  /\ UNCHANGED << engine, now, sheet, user, showLogin, searchQuery,
                  filterQuery, searchResults, isLoading, myBooks, store,
                  nextKey, writes, calls, latest, awaiting, last >>
  /\ Render

setFilterQuery(text) ==
  /\ activeTab # "search"
  /\ text # filterQuery
  /\ filterQuery' = text
  /\ UNCHANGED << engine, now, sheet, user, showLogin, activeTab, searchQuery,
                  searchResults, isLoading, myBooks, store, nextKey, writes,
                  calls, latest, awaiting, last >>
  /\ Render


(***************************************************************************)
(* CollectionSync: the handlers that write to the store.  A handler is     *)
(* modelled up to the write it awaits; the write settles in a later step   *)
(* (writeResolved, writeRejected), which runs the rest of the handler.     *)
(* The derived catalog links of a document are text built from its title   *)
(* and authors, read by no operation, and are left out of the documents.   *)
(***************************************************************************)
\* user.email.split('@')[0]
emailName(u) == splitChar(u.email, "@", <<>>)[1]

\* The fields addBookToFirebase hands to addDoc.  inputDate, inputProposer
\* and inputComments are the answers to its three prompts (Null: declined).
\* parsed.toISOString() throws a RangeError on an Invalid Date.
addBookParsed(inputDate) == parseDate(engine, inputDate)

addBookThrows(inputDate) ==
  inputDate # Null /\ ~addBookParsed(inputDate).valid

addBookData(book, status, inputDate, inputProposer, inputComments) ==
  [title |-> book.title,
   author_name |-> book.author_name,
   coverUrl |-> book.coverUrl,
   isbn |-> book.isbn,
   status |-> status,
   sortDate |-> IF inputDate # Null /\ addBookParsed(inputDate).t # 0
                  THEN addBookParsed(inputDate).t
                  ELSE now,
   displayDate |-> IF inputDate # Null THEN inputDate
                   ELSE IF status = "read" THEN LocaleDateText ELSE <<>>,
   proposer |-> IF inputProposer # Null THEN inputProposer ELSE emailName(user),
   comments |-> IF inputComments # Null THEN inputComments ELSE <<>>,
   attemptedV2 |-> book.coverUrl # Null]

addDocRequest(data, owner) ==
  [op |-> "add", key |-> nextKey, data |-> data, owner |-> owner]

addBookToFirebase(book, status, confirm, inputDate, inputProposer, inputComments) ==
  LET request == addDocRequest(
                   addBookData(book, status, inputDate, inputProposer,
                               inputComments), AppOwner("add"))
  IN
  /\ IF user = NoUser THEN
       /\ showLogin' = TRUE
       /\ last' = Ran("add", "", "Please log in to add books!")
       /\ UNCHANGED << writes, nextKey >>
     ELSE IF status # "suggested" /\ ~isAdmin(user) THEN
       /\ last' = Ran("add", "",
                      "Only admins can add to the Read or Scheduled lists.")
       /\ UNCHANGED << showLogin, writes, nextKey >>
     ELSE IF ~confirm THEN
       /\ last' = Ran("add", "", "")
       /\ UNCHANGED << showLogin, writes, nextKey >>
     ELSE IF addBookThrows(inputDate) THEN
       /\ last' = Ran("add", "RangeError", "")
       /\ UNCHANGED << showLogin, writes, nextKey >>
     ELSE
       /\ writes' = writes \cup {request}
       /\ nextKey' = nextKey + 1
       /\ last' = Ran("add", "", "")
       /\ UNCHANGED << showLogin >>
  /\ UNCHANGED << engine, now, sheet, user, activeTab, searchQuery,
                  filterQuery, searchResults, isLoading, myBooks, store,
                  calls, latest, awaiting >>
  /\ Render

\* The fields editBook hands to updateDoc.
editBookParsed(newDisplayDate) == parseDate(engine, newDisplayDate)

editBookThrows(book, newDisplayDate) ==
  newDisplayDate # book.displayDate /\ ~editBookParsed(newDisplayDate).valid

editBookData(book, newDisplayDate, newProposer, newComments) ==
  [displayDate |-> newDisplayDate,
   proposer |-> newProposer,
   comments |-> newComments,
   sortDate |-> IF newDisplayDate # book.displayDate
                     /\ editBookParsed(newDisplayDate).t # 0
                  THEN editBookParsed(newDisplayDate).t
                  ELSE book.sortDate]

editBook(book, newDisplayDate, newProposer, newComments) ==
  LET request == [op |-> "update", key |-> book.key,
                  data |-> editBookData(book, newDisplayDate, newProposer,
                                        newComments),
                  owner |-> AppOwner("edit")]
  IN
  /\ IF user = NoUser \/ ~isAdmin(user) THEN
       /\ last' = Ran("edit", "", "")
       /\ UNCHANGED << writes >>
     ELSE IF newDisplayDate = Null \/ newProposer = Null \/ newComments = Null THEN
       /\ last' = Ran("edit", "", "")
       /\ UNCHANGED << writes >>
     ELSE IF editBookThrows(book, newDisplayDate) THEN
       /\ last' = Ran("edit", "RangeError", "")
       /\ UNCHANGED writes
     ELSE
       /\ request \notin writes
       /\ writes' = writes \cup {request}
       /\ last' = Ran("edit", "", "")
  /\ UNCHANGED << engine, now, sheet, user, showLogin, activeTab, searchQuery,
                  filterQuery, searchResults, isLoading, myBooks, store,
                  nextKey, calls, latest, awaiting >>
  /\ Render

removeBook(bookKey, confirm) ==
  LET request == [op |-> "delete", key |-> bookKey, data |-> NoArg,
                  owner |-> AppOwner("remove")]
  IN
  /\ IF user = NoUser \/ ~isAdmin(user) THEN
       /\ last' = Ran("remove", "", "")
       /\ UNCHANGED writes
     ELSE IF ~confirm THEN
       /\ last' = Ran("remove", "", "")
       /\ UNCHANGED writes
     ELSE
       /\ request \notin writes
       /\ writes' = writes \cup {request}
       /\ last' = Ran("remove", "", "")
  /\ UNCHANGED << engine, now, sheet, user, showLogin, activeTab, searchQuery,
                  filterQuery, searchResults, isLoading, myBooks, store,
                  nextKey, calls, latest, awaiting >>
  /\ Render


(***************************************************************************)
(* SpreadsheetImportParser: the CSV reading of migrateFromGoogleSheet.     *)
(***************************************************************************)
Quote == "\""

RECURSIVE countQuotes(_)
countQuotes(s) ==
  IF s = <<>> THEN 0
  ELSE (IF Head(s) = Quote THEN 1 ELSE 0) + countQuotes(Tail(s))

\* split(/,(?=(?:(?:[^"]*"){2})*[^"]*$)/): a comma separates two fields when
\* an even number of quotes follows it.
RECURSIVE splitFields(_, _)
splitFields(s, cur) ==
  IF s = <<>> THEN <<cur>>
  ELSE IF Head(s) = "," /\ countQuotes(Tail(s)) % 2 = 0
    THEN <<cur>> \o splitFields(Tail(s), <<>>)
  ELSE splitFields(Tail(s), Append(cur, Head(s)))

\* c.replace(/^"|"$/g, '').trim()
stripQuotes(c) ==
  LET a == IF c # <<>> /\ Head(c) = Quote THEN Tail(c) ELSE c
  IN IF a # <<>> /\ a[Len(a)] = Quote THEN SubSeq(a, 1, Len(a) - 1) ELSE a

csvFields(line) ==
  LET raw == splitFields(line, <<>>)
  IN [i \in 1..Len(raw) |-> trim(stripQuotes(raw[i]))]

csvHeaders(line) ==
  LET cols == csvFields(line)
  IN [i \in 1..Len(cols) |-> toLowerCase(cols[i])]

\* headers.findIndex(h => h.includes(k1) || h.includes(k2) ...): the index,
\* counted from 0, of the first header with one of the keywords; -1 if none.
findIndex(headers, keywords) ==
  LET hit(i) == \E k \in keywords : includes(headers[i], k)
  IN IF \E i \in 1..Len(headers) : hit(i)
       THEN (CHOOSE i \in 1..Len(headers) :
               hit(i) /\ \A j \in 1..(i - 1) : ~hit(j)) - 1
       ELSE -1

KeyTitle == { <<"t","i","t","l","e">>, <<"b","o","o","k">> }
KeyAuthor == { <<"a","u","t","h","o","r">> }
KeyDate == { <<"m","o","n","t","h">>, <<"r","e","a","d">>, <<"y","e","a","r">> }
KeyProposer == { <<"p","r","o","p","o","s","e","r">>, <<"h","o","s","t">> }
KeyIsbn == { <<"i","s","b","n">> }
KeyComments == { <<"c","o","m","m","e","n","t">>, <<"n","o","t","e">> }

\* cols[k] for an index counted from 0; Null stands for undefined.
at(cols, k) == IF k >= 0 /\ k < Len(cols) THEN cols[k + 1] ELSE Null

orEmpty(v) == IF v = Null THEN <<>> ELSE v

\* The title as the sheet or the snapshot holds it.
normalizedTitleAsHeld(title) == title

\* b.title.toLowerCase().trim()
normalizedTitle(title) == trim(toLowerCase(title))

\* new Set(myBooks.map(b => b.title.toLowerCase().trim()))
existingTitlesOf(books) ==
  { normalizedTitle(books[i].title) : i \in 1..Len(books) }

\* The status of a row with a date at the current time counted as after it.
rowStatusFromNow(monthYear, dateObj, time) ==
  IF ~hasMonthToken(monthYear) THEN "suggested"
  ELSE IF dateObj.valid /\ dateObj.t >= time THEN "scheduled"
  ELSE "read"

\* The status of a row: 'suggested' without a month token, 'scheduled' when
\* the parsed date is after the current time, 'read' otherwise.  A
\* comparison with an Invalid Date is false.
rowStatus(monthYear, dateObj, time) ==
  IF ~hasMonthToken(monthYear) THEN "suggested"
  ELSE IF dateObj.valid /\ dateObj.t > time THEN "scheduled"
  ELSE "read"

\* bookData of row i (counted from 0, the header being row 0)
rowData(cols, i, idx, eng, time) ==
  LET monthYear == IF idx.date # -1 THEN orEmpty(at(cols, idx.date)) ELSE <<>>
      dateObj == parseDate(eng, monthYear)
  IN [title |-> at(cols, idx.title),
      author_name |-> << at(cols, idx.author) >>,
      isbn |-> IF idx.isbn # -1 THEN at(cols, idx.isbn) ELSE Null,
      coverUrl |-> Null,
      status |-> rowStatus(monthYear, dateObj, time),
      sortDate |-> dateObj.t + i,
      displayDate |-> monthYear,
      proposer |-> IF idx.proposer # -1
                     THEN orEmpty(at(cols, idx.proposer)) ELSE <<>>,
      comments |-> IF idx.comments # -1 THEN at(cols, idx.comments) ELSE <<>>,
      attemptedV2 |-> FALSE]

\* dateObj.toISOString() throws a RangeError on an Invalid Date.
rowThrows(cols, idx, eng) ==
  ~parseDate(eng, IF idx.date # -1 THEN orEmpty(at(cols, idx.date))
                  ELSE <<>>).valid

maxOf(a, b) == IF a > b THEN a ELSE b

\* The loop over allRows[i], i >= 1: the drafts handed to addDoc so far, the
\* titles seen, and whether a row threw (which ends the loop).
RECURSIVE importRows(_, _, _, _, _, _, _)
importRows(allRows, i, idx, eng, time, seen, drafts) ==
  IF i >= Len(allRows) THEN [drafts |-> drafts, threw |-> ""]
  ELSE
    LET cols == csvFields(allRows[i + 1])
        title == at(cols, idx.title)
    IN IF Len(cols) <= maxOf(idx.title, idx.author) \/ title = <<>>
         THEN importRows(allRows, i + 1, idx, eng, time, seen, drafts)
       ELSE IF normalizedTitle(title) \in seen
         THEN importRows(allRows, i + 1, idx, eng, time, seen, drafts)
       ELSE IF rowThrows(cols, idx, eng)
         THEN [drafts |-> drafts, threw |-> "RangeError"]
       ELSE importRows(allRows, i + 1, idx, eng, time,
                       seen \cup {normalizedTitle(title)},
                       Append(drafts, rowData(cols, i, idx, eng, time)))

columnsOf(headers) ==
  LET titleIdx == findIndex(headers, KeyTitle)
      authorIdx == findIndex(headers, KeyAuthor)
  IN [title |-> IF titleIdx # -1 THEN titleIdx ELSE 0,
      author |-> IF authorIdx # -1 THEN authorIdx ELSE 1,
      date |-> findIndex(headers, KeyDate),
      proposer |-> findIndex(headers, KeyProposer),
      isbn |-> findIndex(headers, KeyIsbn),
      comments |-> findIndex(headers, KeyComments)]

\* The body of the try block of migrateFromGoogleSheet from `text` on: the
\* drafts handed to addDoc, in order, and the error thrown, if any.
importDrafts(text, books, eng, time) ==
  LET allRows == splitChar(text, "\n", <<>>)
  IN IF Len(allRows) < 2
       THEN [drafts |-> <<>>, threw |-> "No data found"]
       ELSE importRows(allRows, 1, columnsOf(csvHeaders(allRows[1])), eng,
                       time, existingTitlesOf(books), <<>>)


(***************************************************************************)
(* migrateFromGoogleSheet.  The handler suspends at `await fetch(...)`;     *)
(* the rest runs when the reply arrives, with the myBooks of the render    *)
(* that created the handler.  The reply's status is never read.            *)
(***************************************************************************)
migrateFromGoogleSheet(confirm) ==
  /\ IF user = NoUser \/ ~isAdmin(user) THEN
       /\ last' = Ran("import", "", "")
       /\ UNCHANGED << isLoading, calls >>
     ELSE IF ~confirm THEN
       /\ last' = Ran("import", "", "")
       /\ UNCHANGED << isLoading, calls >>
     ELSE
       /\ isLoading' = TRUE
       /\ calls' = Append(calls, [kind |-> "sheet", books |-> myBooks])
       /\ last' = Ran("import", "", "")
  /\ UNCHANGED << engine, now, sheet, user, showLogin, activeTab, searchQuery,
                  filterQuery, searchResults, myBooks, store, nextKey,
                  writes, latest, awaiting >>
  /\ Render

removeAt(seq, i) == SubSeq(seq, 1, i - 1) \o SubSeq(seq, i + 1, Len(seq))

\* batchPromises.push(addDoc(collection(db, "books"), bookData)) per draft
importRequests(drafts) ==
  { [op |-> "add", key |-> nextKey + k - 1, data |-> drafts[k],
     owner |-> [kind |-> "import", run |-> nextKey]] : k \in 1..Len(drafts) }

\* The reply to the fetch of the sheet: the transport failed, or a response
\* arrived (of any status) with a body.
sheetReply(i, failed, status, text) ==
  LET call == calls[i]
      result == importDrafts(text, call.books, engine, now)
      requests == importRequests(result.drafts)
      count == Len(result.drafts)
  IN
  /\ i \in 1..Len(calls)
  /\ call.kind = "sheet"
  /\ calls' = removeAt(calls, i)
  /\ IF failed THEN
       /\ last' = Ran("importReply", "", "Migration failed: fetch")
       /\ isLoading' = FALSE
       /\ UNCHANGED << writes, nextKey, awaiting >>
     ELSE
       /\ writes' = writes \cup requests
       /\ nextKey' = nextKey + count
       /\ IF result.threw # "" THEN
            /\ last' = Ran("importReply", "",
                           "Migration failed: " \o result.threw)
            /\ isLoading' = FALSE
            /\ UNCHANGED awaiting
          ELSE IF count = 0 THEN
            /\ last' = Ran("importReply", "",
                           "No new books found to import.")
            /\ isLoading' = FALSE
            /\ UNCHANGED awaiting
          ELSE
            /\ last' = Ran("importReply", "", "")
            /\ awaiting' = awaiting \cup
                 {[run |-> nextKey, count |-> count, failed |-> FALSE]}
            /\ UNCHANGED isLoading
  /\ UNCHANGED << engine, now, sheet, user, showLogin, activeTab, searchQuery,
                  filterQuery, searchResults, myBooks, store, latest >>
  /\ Render

(***************************************************************************)
(* The store settles a write, and the handler awaiting it resumes.         *)
(***************************************************************************)
docOf(w) ==
  [key |-> w.key, title |-> w.data.title, author_name |-> w.data.author_name,
   coverUrl |-> w.data.coverUrl, isbn |-> w.data.isbn,
   status |-> w.data.status, sortDate |-> w.data.sortDate,
   displayDate |-> w.data.displayDate, proposer |-> w.data.proposer,
   comments |-> w.data.comments, attemptedV2 |-> w.data.attemptedV2]

\* addDoc, updateDoc and deleteDoc as the store applies them.  updateDoc
\* changes the named fields only and fails on a missing document.
applyWrite(docs, w) ==
  IF w.op = "add" THEN docs \cup {docOf(w)}
  ELSE IF w.op = "update" THEN
    { IF d.key = w.key
        THEN [d EXCEPT !.displayDate = w.data.displayDate,
                       !.proposer = w.data.proposer,
                       !.comments = w.data.comments,
                       !.sortDate = w.data.sortDate]
        ELSE d : d \in docs }
  ELSE { d \in docs : d.key # w.key }

canApply(docs, w) == w.op = "update" => \E d \in docs : d.key = w.key

runOf(w) == { a \in awaiting : a.run = w.owner.run }
siblings(w) == { v \in writes \ {w} : v.owner = w.owner }

writeResolved(w) ==
  /\ w \in writes
  /\ canApply(store, w)
  /\ writes' = writes \ {w}
  /\ store' = applyWrite(store, w)
  /\ IF w.owner.kind = "add" THEN
       /\ last' = Ran("added", "", "Book added!")
       /\ activeTab' = w.data.status
       /\ searchQuery' = <<>>
       /\ UNCHANGED << isLoading, awaiting >>
     ELSE IF w.owner.kind = "import" /\ runOf(w) # {} /\ siblings(w) = {} THEN
       LET a == CHOOSE a \in runOf(w) : TRUE IN
       /\ awaiting' = awaiting \ {a}
       /\ IF a.failed
            THEN UNCHANGED << last, isLoading >>
            ELSE /\ last' = Ran("imported", "", "Successfully imported")
                 /\ isLoading' = FALSE
       /\ UNCHANGED << activeTab, searchQuery >>
     ELSE
       UNCHANGED << last, activeTab, searchQuery, isLoading, awaiting >>
  /\ UNCHANGED << engine, now, sheet, user, showLogin, filterQuery,
                  searchResults, myBooks, nextKey, calls, latest >>
  /\ Render

writeRejected(w) ==
  /\ w \in writes
  /\ writes' = writes \ {w}
  /\ IF w.owner.kind = "add" THEN
       /\ last' = Ran("addFailed", "", "Error adding book.")
       /\ UNCHANGED << isLoading, awaiting >>
     ELSE IF w.owner.kind = "edit" THEN
       /\ last' = Ran("editFailed", "", "Error updating book.")
       /\ UNCHANGED << isLoading, awaiting >>
     ELSE IF w.owner.kind = "remove" THEN
       /\ last' = Ran("removeFailed", "deleteDoc", "")
       /\ UNCHANGED << isLoading, awaiting >>
     ELSE IF runOf(w) = {} THEN
       \* the run never reached Promise.all: nobody holds this promise
       /\ last' = Ran("importWriteFailed", "addDoc", "")
       /\ UNCHANGED << isLoading, awaiting >>
     ELSE
       LET a == CHOOSE a \in runOf(w) : TRUE
           rest == IF siblings(w) = {} THEN {}
                   ELSE {[a EXCEPT !.failed = TRUE]}
       IN
       /\ awaiting' = (awaiting \ {a}) \cup rest
       /\ IF a.failed
            THEN UNCHANGED << last, isLoading >>
            ELSE /\ last' = Ran("importFailed", "",
                                "Migration failed: addDoc")
                 /\ isLoading' = FALSE
  /\ UNCHANGED << engine, now, sheet, user, showLogin, activeTab, searchQuery,
                  filterQuery, searchResults, myBooks, store, nextKey, calls,
                  latest >>
  /\ Render

(***************************************************************************)
(* The subscription: onSnapshot delivers the whole collection, ordered by  *)
(* sortDate descending (documents with equal sortDate in the order of      *)
(* their ids, which are random), and the callback replaces myBooks.        *)
(***************************************************************************)
elements(seq) == { seq[i] : i \in 1..Len(seq) }

\* Every order of the documents that is descending in sortDate: a document
\* of the greatest sortDate first, then an order of the rest.
RECURSIVE snapshotsOf(_)
snapshotsOf(docs) ==
  IF docs = {} THEN { <<>> }
  ELSE UNION { { <<d>> \o rest : rest \in snapshotsOf(docs \ {d}) } :
               d \in { d \in docs : \A e \in docs : d.sortDate >= e.sortDate } }

\* The snapshot in which documents of equal sortDate come in id order, one
\* of the orders snapshotsOf allows.
RECURSIVE snapshotInIdOrder(_)
snapshotInIdOrder(docs) ==
  IF docs = {} THEN <<>>
  ELSE LET first == CHOOSE d \in docs :
                      \A e \in docs :
                        \/ d.sortDate > e.sortDate
                        \/ d.sortDate = e.sortDate /\ d.key <= e.key
       IN  <<first>> \o snapshotInIdOrder(docs \ {first})

\* A push that adds the pushed documents to the snapshot held.
onSnapshotKeeping(booksData) ==
  /\ elements(myBooks) # store
  /\ booksData \in snapshotsOf(store)
  /\ myBooks' = myBooks \o booksData
  /\ UNCHANGED << engine, now, sheet, user, showLogin, activeTab, searchQuery,
                  filterQuery, searchResults, isLoading, store, nextKey,
                  writes, calls, latest, awaiting, last >>
  /\ Render

onSnapshot(booksData) ==
  /\ elements(myBooks) # store
  /\ booksData \in snapshotsOf(store)
  /\ myBooks' = booksData
  /\ UNCHANGED << engine, now, sheet, user, showLogin, activeTab, searchQuery,
                  filterQuery, searchResults, isLoading, store, nextKey,
                  writes, calls, latest, awaiting, last >>
  /\ Render


(***************************************************************************)
(* ExternalSearchAdapter: executeSearch and fetchNYTList.  Each suspends   *)
(* at its fetch; the rest runs when the reply arrives.                     *)
(***************************************************************************)
Volumes == <<VolumeDune, VolumeEmma>>

RECURSIVE volumesMatching(_, _)
volumesMatching(items, queryText) ==
  IF items = <<>> THEN <<>>
  ELSE IF includes(toLowerCase(Head(items).title), toLowerCase(trim(queryText)))
    THEN <<Head(items)>> \o volumesMatching(Tail(items), queryText)
  ELSE volumesMatching(Tail(items), queryText)

\* data.items of the book-metadata API's answer to a query
googleItems(queryText) == volumesMatching(Volumes, queryText)

\* data.results.books of the bestseller-list API's answer
nytBooks(listName) ==
  << [title |-> <<"D","U","N","E">>, author |-> <<"A","l"," ","B","o">>,
      primary_isbn13 |-> <<"9","7","8">>, book_image |-> <<"u">>] >>

\* (data.results?.books || []).map(item => ...) of fetchNYTList
formatNYT(items) ==
  [i \in 1..Len(items) |->
     [key |-> items[i].primary_isbn13,
      title |-> items[i].title,
      author_name |-> << items[i].author >>,
      coverUrl |-> items[i].book_image,
      isbn |-> items[i].primary_isbn13]]

NYT_API_KEY == <<"k","e","y">>

\* executeSearch up to its fetch; a blank query returns at once.
executeSearch(queryText) ==
  LET call == [kind |-> "search", query |-> queryText]
  IN
  IF trim(queryText) = <<>> THEN
    UNCHANGED << isLoading, activeTab, searchResults, calls, latest, last >>
  ELSE
    /\ isLoading' = TRUE
    /\ activeTab' = "search"
    /\ searchResults' = <<>>
    /\ calls' = Append(calls, call)
    /\ latest' = call
    /\ last' = Ran("search", "", "")

\* handleSearch: the form's submit
handleSearch ==
  /\ executeSearch(searchQuery)
  /\ UNCHANGED << engine, now, sheet, user, showLogin, searchQuery,
                  filterQuery, myBooks, store, nextKey, writes, awaiting >>
  /\ Render

\* handleQuickSearch(term)
handleQuickSearch(term) ==
  /\ searchQuery' = term
  /\ executeSearch(term)
  /\ UNCHANGED << engine, now, sheet, user, showLogin, filterQuery, myBooks,
                  store, nextKey, writes, awaiting >>
  /\ Render

\* the search input's onChange
setSearchQuery(text) ==
  /\ text # searchQuery
  /\ searchQuery' = text
  /\ UNCHANGED << engine, now, sheet, user, showLogin, activeTab, filterQuery,
                  searchResults, isLoading, myBooks, store, nextKey, writes,
                  calls, latest, awaiting, last >>
  /\ Render

\* How a fetch of a search API ends: a 2xx answer, a 429, another non-2xx
\* status, a transport failure, or (executeSearch only) the 15 s abort.
SearchOutcomes == {"ok", "429", "500", "network", "timeout"}
NYTOutcomes == {"ok", "500", "network"}

searchAlert(outcome) ==
  IF outcome = "timeout" THEN "The book search timed out. Please try again."
  ELSE IF outcome = "429"
    THEN "Failed to search books: Please wait a moment and try again."
  ELSE IF outcome = "500" THEN "Failed to search books: API Error: 500"
  ELSE "Failed to search books: fetch"

searchReply(i, outcome) ==
  LET call == calls[i] IN
  /\ i \in 1..Len(calls)
  /\ call.kind = "search"
  /\ calls' = removeAt(calls, i)
  /\ IF outcome = "ok"
       THEN /\ searchResults' = formatVolumes(googleItems(call.query))
            /\ last' = Ran("searchReply", "", "")
       ELSE /\ searchResults' = <<>>
            /\ last' = Ran("searchReply", "", searchAlert(outcome))
  /\ isLoading' = FALSE
  /\ UNCHANGED << engine, now, sheet, user, showLogin, activeTab, searchQuery,
                  filterQuery, myBooks, store, nextKey, writes, latest,
                  awaiting >>
  /\ Render

fetchNYTList(listName) ==
  LET call == [kind |-> "nyt", query |-> listName]
  IN
  /\ IF NYT_API_KEY = <<>> THEN
       /\ last' = Ran("nyt", "",
                      "To view real NYT Bestsellers, you need an API Key.")
       /\ UNCHANGED << isLoading, activeTab, calls, latest >>
     ELSE
       /\ isLoading' = TRUE
       /\ activeTab' = "search"
       /\ calls' = Append(calls, call)
       /\ latest' = call
       /\ last' = Ran("nyt", "", "")
  /\ UNCHANGED << engine, now, sheet, user, showLogin, searchQuery,
                  filterQuery, searchResults, myBooks, store, nextKey, writes,
                  awaiting >>
  /\ Render

nytReply(i, outcome) ==
  LET call == calls[i] IN
  /\ i \in 1..Len(calls)
  /\ call.kind = "nyt"
  /\ calls' = removeAt(calls, i)
  /\ IF outcome = "ok"
       THEN /\ searchResults' = formatNYT(nytBooks(call.query))
            /\ last' = Ran("nytReply", "", "")
       ELSE /\ UNCHANGED searchResults
            /\ last' = Ran("nytReply", "",
                           "Failed to fetch NYT Bestsellers")
  /\ isLoading' = FALSE
  /\ UNCHANGED << engine, now, sheet, user, showLogin, activeTab, searchQuery,
                  filterQuery, myBooks, store, nextKey, writes, latest,
                  awaiting >>
  /\ Render


(***************************************************************************)
(* The application from its construction.                                  *)
(***************************************************************************)
line(fields) == join(fields, <<",">>)
text(lines) == join(lines, <<"\n">>)

HeaderTitleAuthorMonth ==
  line(<< <<"T","i","t","l","e">>, <<"A","u","t","h","o","r">>,
          <<"M","o","n","t","h">> >>)

SheetSmall ==
  text(<< HeaderTitleAuthorMonth, line(<<TextDune, TextAl, TextMar2020>>) >>)

ErrorBody == text(<< <<"E","r","r","o","r">>, <<"S","o","r","r","y",","," ","n","o">> >>)

InitApp ==
  /\ now = NowStart
  /\ showLogin = FALSE
  /\ activeTab = "read"
  /\ searchQuery = <<>>
  /\ filterQuery = <<>>
  /\ searchResults = <<>>
  /\ isLoading = FALSE
  /\ myBooks = <<>>
  /\ nextKey = 1
  /\ writes = {}
  /\ calls = <<>>
  /\ latest = [kind |-> "none", query |-> <<>>]
  /\ awaiting = {}
  /\ shown = <<>>
  /\ last = Ran("none", "", "")

\* The state after one search for "dune" has completed: the search tab
\* shows its result.
InitSearched ==
  /\ now = NowStart
  /\ user = NoUser
  /\ showLogin = FALSE
  /\ activeTab = "search"
  /\ searchQuery = <<"d","u","n","e">>
  /\ filterQuery = <<>>
  /\ searchResults = formatVolumes(googleItems(<<"d","u","n","e">>))
  /\ isLoading = FALSE
  /\ myBooks = <<>>
  /\ nextKey = 1
  /\ writes = {}
  /\ calls = <<>>
  /\ latest = [kind |-> "search", query |-> <<"d","u","n","e">>]
  /\ awaiting = {}
  /\ shown = searchResults
  /\ last = Ran("none", "", "")
  /\ engine \in Engines
  /\ sheet = SheetSmall
  /\ store = {}

\* The answers to the three prompts of addBookToFirebase and of editBook.
AddPrompts ==
  { <<Null, Null, Null>>, <<TextSep2099, TextAl, TextOk>>,
    <<TextJan300000, TextAl, TextOk>> }
EditPrompts ==
  { <<Null, TextAl, TextOk>>, <<TextMar2020, Null, TextOk>>,
    <<TextMar2020, TextAl, Null>>, <<TextMar2020, TextAl, TextOk>>,
    <<TextJan300000, TextAl, TextOk>> }

\* The bounds of a step: the writes in flight and the ids handed out.
canIssue == Cardinality(writes) < MaxWrites /\ nextKey <= MaxDocs

(***************************************************************************)
(* Session, add, edit and remove, from the state after a search.           *)
(***************************************************************************)
NextCrud ==
  \/ \E u \in Users, ok \in BOOLEAN : handleLogin(u, ok)
  \/ \E ok \in BOOLEAN : handleLogout(ok)
  \/ \E tab \in Tabs : setActiveTab(tab)
  \/ \E book \in elements(shown), status \in Statuses, confirm \in BOOLEAN,
        p \in AddPrompts :
       /\ activeTab = "search"
       /\ canIssue
       /\ addBookToFirebase(book, status, confirm, p[1], p[2], p[3])
  \/ \E book \in elements(myBooks), p \in EditPrompts :
       Cardinality(writes) < MaxWrites /\ editBook(book, p[1], p[2], p[3])
  \/ \E book \in elements(myBooks), confirm \in BOOLEAN :
       Cardinality(writes) < MaxWrites /\ removeBook(book.key, confirm)
  \/ \E confirm \in BOOLEAN :
       calls = <<>> /\ migrateFromGoogleSheet(confirm)
  \/ \E i \in 1..Len(calls) : sheetReply(i, TRUE, 0, <<>>)
  \/ \E i \in 1..Len(calls) : canIssue /\ sheetReply(i, FALSE, 200, sheet)
  \/ \E w \in writes : writeResolved(w)
  \/ \E w \in writes : writeRejected(w)
  \/ \E booksData \in snapshotsOf(store) : onSnapshot(booksData)

SpecCrud == InitSearched /\ [][NextCrud]_vars

(***************************************************************************)
(* Bulk import: the sheet holds one of a set of texts; a document added    *)
(* by hand may already be in the store.                                    *)
(***************************************************************************)
RowDune == line(<<TextDune, TextAl, TextMar2020>>)
RowDuneAgain ==
  line(<< <<" ","d","U","N","E"," ">>, <<"B","o">>,
          <<"1"," ">> \o TextSep2099 >>)
TextDec2026 == <<"D","e","c"," ","2","0","2","6">>
RowEmma == line(<<TextEmma, TextAl, TextDec2026>>)
RowEmmaNoDate == line(<<TextEmma, <<"B","o">>, <<>> >>)
RowOdd == line(<< <<"O","d","d">>, TextAl, TextJan300000 >>)
RowQuoted ==
  line(<< <<Quote,"H","i",","," ","B","o",Quote>>, TextAl,
          <<"m","a","y","b","e","\r">> >>)
RowNoTitle == line(<< <<>>, TextAl, TextMar2020 >>)
RowIvy == line(<< <<"I","v","y">>, TextAl, TextSep2099 >>)

sheetOf(rows) == text(<<HeaderTitleAuthorMonth>> \o rows)

Sheets ==
  { sheetOf(<<>>),
    sheetOf(<<RowDuneAgain, RowDune>>),
    sheetOf(<<RowEmma, RowIvy>>),
    sheetOf(<<RowEmmaNoDate, RowDuneAgain, RowEmma>>),
    sheetOf(<<RowDune, RowOdd>>),
    sheetOf(<<RowQuoted, RowNoTitle, RowDuneAgain>>),
    sheetOf(<<RowIvy>>) }

\* A document added by hand before the run: "Dune", suggested.
DocByHand ==
  [key |-> 0, title |-> TextDune, author_name |-> << TextAl, <<"B","o">> >>,
   coverUrl |-> Null, isbn |-> <<"9","7","8">>, status |-> "suggested",
   sortDate |-> NowStart - 1, displayDate |-> <<>>,
   proposer |-> <<"a","n","n">>, comments |-> <<>>, attemptedV2 |-> FALSE]

InitImport ==
  /\ InitApp
  /\ user = AdminUser
  /\ engine \in Engines
  /\ sheet \in Sheets
  /\ store = {DocByHand}

NextImport ==
  \/ \E confirm \in BOOLEAN :
       calls = <<>> /\ writes = {} /\ migrateFromGoogleSheet(confirm)
  \/ \E i \in 1..Len(calls) : sheetReply(i, TRUE, 0, <<>>)
  \/ \E i \in 1..Len(calls) :
       sheetReply(i, FALSE, 200, sheet) /\ nextKey' - 1 <= MaxImported
  \/ \E i \in 1..Len(calls) :
       sheetReply(i, FALSE, 500, ErrorBody) /\ nextKey' - 1 <= MaxImported
  \/ \E w \in writes : writeResolved(w)
  \/ \E w \in writes : writeRejected(w)
  \/ onSnapshot(snapshotInIdOrder(store))

SpecImport == InitImport /\ [][NextImport]_vars

(***************************************************************************)
(* The gate of remove and import: one document is in the store and in the  *)
(* snapshot, the suggested tab is open, and anyone may sign in.            *)
(***************************************************************************)
InitGate ==
  /\ now = NowStart
  /\ user = NoUser
  /\ showLogin = FALSE
  /\ activeTab = "suggested"
  /\ searchQuery = <<>>
  /\ filterQuery = <<>>
  /\ searchResults = <<>>
  /\ isLoading = FALSE
  /\ myBooks = <<DocByHand>>
  /\ store = {DocByHand}
  /\ nextKey = 1
  /\ writes = {}
  /\ calls = <<>>
  /\ latest = [kind |-> "none", query |-> <<>>]
  /\ awaiting = {}
  /\ shown = getDisplayBooks(myBooks, searchResults, activeTab, filterQuery)
  /\ last = Ran("none", "", "")
  /\ engine \in Engines
  /\ sheet \in {SheetSmall, sheetOf(<<RowEmma>>)}

NextGate ==
  \/ \E u \in Users, ok \in BOOLEAN : handleLogin(u, ok)
  \/ \E ok \in BOOLEAN : handleLogout(ok)
  \/ \E book \in elements(myBooks), confirm \in BOOLEAN :
       writes = {} /\ removeBook(book.key, confirm)
  \/ \E confirm \in BOOLEAN :
       calls = <<>> /\ writes = {} /\ migrateFromGoogleSheet(confirm)
  \/ \E i \in 1..Len(calls) : sheetReply(i, TRUE, 0, <<>>)
  \/ \E i \in 1..Len(calls) :
       sheetReply(i, FALSE, 200, sheet) /\ nextKey' - 1 <= MaxDocs
  \/ \E w \in writes : writeResolved(w)
  \/ \E w \in writes : writeRejected(w)
  \/ onSnapshot(snapshotInIdOrder(store))

SpecGate == InitGate /\ [][NextGate]_vars

(***************************************************************************)
(* Search: typed and quick searches and bestseller lists, whose replies    *)
(* arrive in any order and end in any way.                                 *)
(***************************************************************************)
InitSearch ==
  /\ InitApp
  /\ user = NoUser
  /\ engine = "strict"
  /\ sheet = SheetSmall
  /\ store = {}

QueryDune == <<"d","u","n","e">>
QueryEm == <<"E","M">>
QueryBlank == <<" ">>
QueryNone == <<"z","z">>
ListFiction == <<"f","i","c","t","i","o","n">>

\* The submit button of the search form is disabled while isLoading; the
\* quick-search and list buttons are not.
NextSearch ==
  \/ \E typed \in {<<>>, QueryDune, QueryBlank} : setSearchQuery(typed)
  \/ ~isLoading /\ Len(calls) < MaxCalls /\ handleSearch
  \/ \E term \in {QueryEm, QueryNone} :
       Len(calls) < MaxCalls /\ handleQuickSearch(term)
  \/ Len(calls) < MaxCalls /\ fetchNYTList(ListFiction)
  \/ \E i \in 1..Len(calls), outcome \in SearchOutcomes :
       searchReply(i, outcome)
  \/ \E i \in 1..Len(calls), outcome \in NYTOutcomes : nytReply(i, outcome)
  \/ \E tab \in Tabs : setActiveTab(tab)

SpecSearch == InitSearch /\ [][NextSearch]_vars

(***************************************************************************)
(* The lists: a store of some documents, pushed in any order the query     *)
(* allows, seen through every tab and filter text.                         *)
(***************************************************************************)
viewDoc(key, title, authors, status, sortDate) ==
  [key |-> key, title |-> title, author_name |-> authors,
   coverUrl |-> Null, isbn |-> Null, status |-> status,
   sortDate |-> sortDate, displayDate |-> <<>>,
   proposer |-> <<"a","n","n">>, comments |-> <<>>, attemptedV2 |-> FALSE]

DocEmma ==
  viewDoc(1, TextEmma, << <<"J","o">> >>, "read", MakeDate(2020, 2).t)
DocIvy ==
  viewDoc(2, <<"I","v","y">>, << TextAl >>, "read", MakeDate(2024, 0).t)
DocTie ==
  viewDoc(3, <<"d","U","N","E"," ","2">>, << <<"J","o">>, TextAl >>, "read",
          MakeDate(2020, 2).t)
DocNext ==
  viewDoc(4, <<"O","d","d">>, << TextAl, <<"B","o">> >>, "scheduled",
          MakeDate(2099, 8).t)
DocSoon ==
  viewDoc(5, <<"S","u","n">>, << <<"J","o">> >>, "scheduled",
          MakeDate(2027, 0).t)
DocIdea ==
  viewDoc(6, <<"U","l","m">>, << <<"J","o">> >>, "suggested", NowStart)

ViewDocs == {DocByHand, DocEmma, DocIvy, DocTie, DocNext, DocSoon, DocIdea}

FilterUn == <<"U","N">>
FilterLB == <<"L"," ","b">>
FilterTexts == { <<>>, FilterUn, FilterLB, <<"z","z">> }

\* A search has completed and the read tab is open again; the first push
\* of the subscription has not arrived yet.
InitView ==
  /\ now = NowStart
  /\ user = NoUser
  /\ showLogin = FALSE
  /\ activeTab = "read"
  /\ searchQuery = QueryDune
  /\ filterQuery = <<>>
  /\ searchResults = formatVolumes(googleItems(QueryDune))
  /\ isLoading = FALSE
  /\ myBooks = <<>>
  /\ nextKey = 1
  /\ writes = {}
  /\ calls = <<>>
  /\ latest = [kind |-> "search", query |-> QueryDune]
  /\ awaiting = {}
  /\ shown = <<>>
  /\ last = Ran("none", "", "")
  /\ engine = "strict"
  /\ sheet = SheetSmall
  /\ store \in SUBSET ViewDocs

NextView ==
  \/ \E booksData \in snapshotsOf(store) : onSnapshot(booksData)
  \/ \E tab \in Tabs : setActiveTab(tab)
  \/ \E typed \in FilterTexts : setFilterQuery(typed)

SpecView == InitView /\ [][NextView]_vars

(***************************************************************************)
(* The order of imported rows: one import of a sheet with rows of the same *)
(* month, its documents pushed and seen through the list tabs.  The ids of *)
(* the one run are handed out in row order.                                *)
(***************************************************************************)
RowOwl == line(<< <<"O","w","l">>, TextAl, <<"d","e","c","-","2","0","2","6">> >>)
RowElm == line(<< <<"E","l","m">>, <<"B","o">>, <<"S","e","p","-","2","0","9","9">> >>)

OrderSheets ==
  { sheetOf(<<RowEmma, RowOwl>>),
    sheetOf(<<RowIvy, RowElm>>),
    sheetOf(<<RowEmma, RowIvy, RowOwl>>) }

InitOrder ==
  /\ InitApp
  /\ user = AdminUser
  /\ engine \in Engines
  /\ sheet \in OrderSheets
  /\ store = {}

NextOrder ==
  \/ \E confirm \in BOOLEAN :
       calls = <<>> /\ nextKey = 1 /\ migrateFromGoogleSheet(confirm)
  \/ \E i \in 1..Len(calls) : sheetReply(i, TRUE, 0, <<>>)
  \/ \E i \in 1..Len(calls) : sheetReply(i, FALSE, 200, sheet)
  \/ \E w \in writes : writeResolved(w)
  \/ \E w \in writes : writeRejected(w)
  \/ \E booksData \in snapshotsOf(store) : onSnapshot(booksData)
  \/ \E tab \in ListTabs : setActiveTab(tab)

SpecOrder == InitOrder /\ [][NextOrder]_vars

(***************************************************************************)
(* The snapshot among the local operations: the admin is signed in after a *)
(* search, one document is in the store, and add, edit, remove, import and *)
(* search run one at a time, with pushes arriving at any moment.           *)
(***************************************************************************)
InitSync ==
  /\ now = NowStart
  /\ user = AdminUser
  /\ showLogin = FALSE
  /\ activeTab = "search"
  /\ searchQuery = QueryDune
  /\ filterQuery = <<>>
  /\ searchResults = formatVolumes(googleItems(QueryDune))
  /\ isLoading = FALSE
  /\ myBooks = <<>>
  /\ nextKey = 1
  /\ writes = {}
  /\ calls = <<>>
  /\ latest = [kind |-> "search", query |-> QueryDune]
  /\ awaiting = {}
  /\ shown = searchResults
  /\ last = Ran("none", "", "")
  /\ engine = "strict"
  /\ sheet = SheetSmall
  /\ store = {DocByHand}

NextSync ==
  \/ \E book \in elements(shown) :
       /\ activeTab = "search"
       /\ calls = <<>>
       /\ writes = {}
       /\ nextKey <= MaxDocs
       /\ addBookToFirebase(book, "read", TRUE, TextSep2099, TextAl, TextOk)
  \/ \E book \in elements(myBooks) :
       calls = <<>> /\ writes = {} /\ editBook(book, TextMar2020, TextAl, TextOk)
  \/ \E book \in elements(myBooks) : calls = <<>> /\ writes = {} /\ removeBook(book.key, TRUE)
  \/ calls = <<>> /\ writes = {} /\ migrateFromGoogleSheet(TRUE)
  \/ \E i \in 1..Len(calls) :
       sheetReply(i, FALSE, 200, sheet) /\ nextKey' - 1 <= MaxDocs
  \/ calls = <<>> /\ writes = {} /\ handleQuickSearch(QueryEm)
  \/ \E i \in 1..Len(calls), outcome \in {"ok", "500"} :
       searchReply(i, outcome)
  \/ \E w \in writes : writeResolved(w)
  \/ \E w \in writes : writeRejected(w)
  \/ \E booksData \in snapshotsOf(store) : onSnapshot(booksData)

SpecSync == InitSync /\ [][NextSync]_vars

(***************************************************************************)
(* Properties.                                                             *)
(***************************************************************************)
\* The add requests a step issues.
issued == writes' \ writes

\* C1: addBookToFirebase issues no store write when nobody is signed in and
\* none when the status is read or scheduled and the identity is not an
\* admin; called by an admin with status read and confirmed, it creates
\* exactly one new document, of status read.
C1_AddGateAndOneRead ==
  [][ \A book \in elements(shown), status \in Statuses, confirm \in BOOLEAN,
         p \in AddPrompts :
        addBookToFirebase(book, status, confirm, p[1], p[2], p[3]) =>
          /\ user = NoUser => writes' = writes
          /\ (user = MemberUser /\ status \in {"read", "scheduled"}) =>
               writes' = writes
          /\ (user = AdminUser /\ status = "read" /\ confirm) =>
               \E w \in issued :
                 /\ issued = {w}
                 /\ writes \subseteq writes'
                 /\ w.op = "add"
                 /\ w.data.status = "read" ]_vars

\* The admin's add has thrown at toISOString before reaching addDoc.
C1_AddThrew ==
  /\ user = AdminUser
  /\ last = Ran("add", "RangeError", "")
  /\ writes = {}
  /\ store = {}

\* C2: editBook issues no store write when the caller is signed out or not
\* an admin, and none when one of its three prompts is declined; otherwise
\* it issues exactly one write, which touches only displayDate, proposer,
\* comments and sortDate of the targeted document.
C2_EditGateAndOneWrite ==
  [][ \A book \in elements(myBooks), p \in EditPrompts :
        editBook(book, p[1], p[2], p[3]) =>
          IF user \in {NoUser, MemberUser} THEN writes' = writes
          ELSE IF p[1] = Null \/ p[2] = Null \/ p[3] = Null
            THEN writes' = writes
          ELSE \E w \in issued :
                 /\ issued = {w}
                 /\ writes \subseteq writes'
                 /\ w.op = "update"
                 /\ w.key = book.key
                 /\ DOMAIN w.data =
                      {"displayDate", "proposer", "comments", "sortDate"} ]_vars

\* The admin's edit has thrown at toISOString before reaching updateDoc.
C2_EditThrew ==
  /\ user = AdminUser
  /\ last = Ran("edit", "RangeError", "")
  /\ writes = {}
  /\ store # {}

\* C3: removeBook and migrateFromGoogleSheet, invoked while nobody is signed
\* in or the identity is not an admin, attempt no store write (no delete, no
\* create, no fetch that would lead to one) and leave the collection
\* unchanged.
C3_NonAdminWritesNothing ==
  [][ ( /\ user \in {NoUser, MemberUser}
        /\ \/ \E book \in elements(myBooks), confirm \in BOOLEAN :
                removeBook(book.key, confirm)
           \/ \E confirm \in BOOLEAN : migrateFromGoogleSheet(confirm) )
      => writes' = writes /\ store' = store /\ calls' = calls ]_vars

\* A member has pressed delete on the shown document and nothing happened.
C3_MemberPressedDelete ==
  /\ user = MemberUser
  /\ last = Ran("remove", "", "")
  /\ myBooks = <<DocByHand>>
  /\ store = {DocByHand}
  /\ writes = {}

\* What the API answers to a call.
resultsOf(call) ==
  IF call.kind = "search" THEN formatVolumes(googleItems(call.query))
  ELSE formatNYT(nytBooks(call.query))

\* C6: when a search or list fetch is started while an earlier one is still
\* in flight, the results displayed once both have completed are those of
\* the most recently started call, in whichever order the replies arrive:
\* once no call is in flight and the last reply was an answer, the results
\* held are the answer to the latest call.
C6_LatestCallWins ==
  ( /\ calls = <<>>
    /\ last.op \in {"searchReply", "nytReply"}
    /\ last.alert = "" )
  => searchResults = resultsOf(latest)

\* C7: whenever executeSearch or fetchNYTList ends in an error (transport
\* failure, non-2xx status, rate limit, timeout), the error is shown to the
\* user and the search results afterwards are the empty sequence, whatever
\* was held before.
C7_FailClosed ==
  [][ \A i \in 1..Len(calls) :
        ( \/ \E outcome \in SearchOutcomes \ {"ok"} : searchReply(i, outcome)
          \/ \E outcome \in NYTOutcomes \ {"ok"} : nytReply(i, outcome) )
        => last'.alert # "" /\ searchResults' = <<>> ]_vars

\* C8: for every snapshot and filter text, getDisplayBooks on the scheduled
\* tab returns a sequence non-decreasing in sortDate, and on the read and
\* suggested tabs a sequence non-increasing in sortDate.
C8_SortedByTab ==
  /\ activeTab = "scheduled" =>
       \A i \in 1..(Len(shown) - 1) : shown[i].sortDate <= shown[i + 1].sortDate
  /\ activeTab \in {"read", "suggested"} =>
       \A i \in 1..(Len(shown) - 1) : shown[i].sortDate >= shown[i + 1].sortDate

\* The scheduled tab shows two documents, the earlier first, from a snapshot
\* that holds the later first.
C8_ScheduledReordered ==
  /\ activeTab = "scheduled"
  /\ shown = <<DocSoon, DocNext>>
  /\ \E i, j \in 1..Len(myBooks) :
       i < j /\ myBooks[i] = DocNext /\ myBooks[j] = DocSoon

\* Two characters that are the same letter in either case, or equal.
sameLetter(a, b) ==
  \/ a = b
  \/ \E k \in 1..Len(UpperLetters) :
       {a, b} = {UpperLetters[k], LowerLetters[k]}

\* The text occurs in s, letter case aside.
occursIn(typed, s) ==
  \E i \in 0..(Len(s) - Len(typed)) :
    \A j \in 1..Len(typed) : sameLetter(s[i + j], typed[j])

\* The snapshot records the tab and the filter text select.
selected ==
  { b \in elements(myBooks) :
      /\ b.status = activeTab
      /\ occursIn(filterQuery, b.title) \/ occursIn(filterQuery, authorText(b)) }

\* C9: on a list tab getDisplayBooks returns exactly the snapshot records
\* whose status is the active tab and whose title or joined author text
\* contains the filter text case-insensitively: none omitted, no other
\* included, and an empty filter text matches every record of the status.
C9_ExactlyTheMatches ==
  activeTab \in ListTabs =>
    /\ elements(shown) = selected
    /\ Len(shown) = Cardinality(selected)
    /\ filterQuery = <<>> =>
         elements(shown) = { b \in elements(myBooks) : b.status = activeTab }

\* The filter "L b" on the suggested tab keeps the document whose joined
\* authors are "Al Bo" and drops the other suggestion.
C9_FilteredByAuthors ==
  /\ activeTab = "suggested"
  /\ filterQuery = FilterLB
  /\ shown = <<DocByHand>>
  /\ DocIdea \in elements(myBooks)

\* A title trimmed and lower-cased.
folded(title) == toLowerCase(trim(title))

\* C4: for any import batch and any pre-existing titles taken from the local
\* snapshot, no two drafts one import run produces have the same normalized
\* (trimmed, lower-cased) title, and no draft's normalized title is that of
\* a record of the snapshot the run was given.  The run's drafts are the
\* requests issued by the step in which the fetch of the sheet settles.
C4_NoDuplicateTitles ==
  [][ \A i \in 1..Len(calls) :
        (calls[i].kind = "sheet" /\ calls' = removeAt(calls, i))
        => /\ \A v, w \in issued :
                v # w => folded(v.data.title) # folded(w.data.title)
           /\ \A w \in issued, k \in 1..Len(calls[i].books) :
                folded(w.data.title) # folded(calls[i].books[k].title) ]_vars

\* A run over the rows "Emma", " dUNE " and "Emma" with "Dune" in the
\* snapshot has produced one draft, "Emma".
C4_OneDraftOfThreeRows ==
  /\ sheet = sheetOf(<<RowEmmaNoDate, RowDuneAgain, RowEmma>>)
  /\ myBooks = <<DocByHand>>
  /\ store = {DocByHand}
  /\ nextKey = 2
  /\ \E w \in writes :
       writes = {w} /\ w.owner.kind = "import" /\ w.data.title = TextEmma

\* The documents of an import of the sheet are all in the store.
sheetImported ==
  LET first == importDrafts(sheet, <<>>, engine, now)
  IN /\ first.threw = ""
     /\ first.drafts # <<>>
     /\ \A k \in 1..Len(first.drafts) :
          \E d \in store : d # DocByHand /\ d.title = first.drafts[k].title

\* C5: bulk import is idempotent: running the import again after a first
\* import of the same text has completed creates no additional documents,
\* in every interleaving of the second run with the pushes that deliver the
\* first run's writes: once the documents of an import of the sheet are in
\* the store and no write is in flight, a run over the sheet hands the store
\* nothing.
C5_SecondRunAddsNothing ==
  [][ \A i \in 1..Len(calls) :
        (writes = {} /\ sheetReply(i, FALSE, 200, sheet) /\ sheetImported)
        => writes' = writes ]_vars

\* The text names a month: one of the twelve 3-letter tokens occurs in it.
namesMonth(raw) == \E k \in 1..Len(MonthNames) : occursIn(MonthNames[k], raw)

\* C10: every draft import produces has status suggested if its raw date
\* text contains no 3-letter month-name token, scheduled if it contains one
\* and the parsed instant is strictly after the current time, and read
\* otherwise; the status is always one of the three.
C10_StatusByDate ==
  \A w \in writes :
    w.owner.kind = "import" =>
      LET raw == w.data.displayDate
          parsed == parseDate(engine, raw)
      IN /\ w.data.status \in Statuses
         /\ ~namesMonth(raw) => w.data.status = "suggested"
         /\ (namesMonth(raw) /\ parsed.t > now) => w.data.status = "scheduled"
         /\ (namesMonth(raw) /\ ~(parsed.t > now)) => w.data.status = "read"

\* The row dated "Dec 2026", whose first instant is the current time, has
\* been drafted as read.
C10_DatedNowIsRead ==
  \E w \in writes :
    /\ w.owner.kind = "import"
    /\ w.data.displayDate = TextDec2026
    /\ parseDate(engine, TextDec2026).t = now
    /\ w.data.status = "read"

\* C11: every failure of an asynchronous operation (sign-in, sign-out,
\* search, list fetch, add, update, remove, import) is caught inside the
\* operation that produced it and reported; no rejection from the store or
\* the identity provider escapes a handler uncaught.
C11_NothingEscapes == last.threw = ""

\* The admin's delete was rejected by the store and nothing caught it.
C11_DeleteRejected ==
  /\ user = AdminUser
  /\ last = Ran("removeFailed", "deleteDoc", "")
  /\ store = {DocByHand}
  /\ writes = {}

\* C14: when the fetch of the sheet fails or returns a non-2xx status, the
\* import aborts with a message to the user and issues no store write,
\* leaving the collection unchanged.
C14_FailedFetchWritesNothing ==
  [][ \A i \in 1..Len(calls) :
        ( \/ sheetReply(i, TRUE, 0, <<>>)
          \/ sheetReply(i, FALSE, 500, ErrorBody) )
        => /\ last'.alert # ""
           /\ writes' = writes
           /\ store' = store ]_vars

\* C15: in every reachable state isLoading is true exactly when a search, a
\* list fetch or an import is in flight; it is never false while one of
\* them is pending, also when several overlap.
C15_LoadingIffInFlight == isLoading <=> (calls # <<>> \/ awaiting # {})

\* C12: of two rows of one import batch that parse to the same month and
\* get the same status, the row that comes earlier in the sheet is shown
\* before the later one by getDisplayBooks on the tab of that status.  (The
\* documents of the one run carry ids in row order.)
C12_EarlierRowFirst ==
  activeTab \in ListTabs =>
    \A i, j \in 1..Len(shown) :
      ( /\ shown[i].status = shown[j].status
        /\ parseDate(engine, shown[i].displayDate) =
             parseDate(engine, shown[j].displayDate)
        /\ shown[i].key < shown[j].key )
      => i < j

\* The read tab shows the row "Owl" of December 2026 before the row "Emma"
\* of December 2026, which precedes it in the sheet.
C12_LaterRowShownFirst ==
  /\ activeTab = "read"
  /\ Len(shown) = 2
  /\ shown[1].title = <<"O","w","l">>
  /\ shown[2].title = TextEmma
  /\ shown[1].key > shown[2].key

\* C13: after every push of the subscription the local snapshot is exactly
\* the pushed collection, with nothing kept from the snapshot before, and
\* between pushes no local operation (add, update, remove, import, search,
\* getDisplayBooks) changes the local snapshot.
C13_SnapshotReplacedWholesale ==
  [][ /\ (\E booksData \in snapshotsOf(store) : onSnapshot(booksData)) =>
           /\ elements(myBooks') = store
           /\ Len(myBooks') = Cardinality(store)
      /\ myBooks' # myBooks =>
           \E booksData \in snapshotsOf(store) : onSnapshot(booksData) ]_vars

\* The one document was pushed, deleted by the admin, and a second push has
\* left the snapshot empty.
C13_PushAfterDelete ==
  /\ store = {}
  /\ myBooks = <<>>
  /\ nextKey = 1
  /\ writes = {}

====
